---- MODULE Spec2Model ----
(***************************************************************************)
(* A model of bmail's TextMailer (src/bmail/text_mailer.py): template      *)
(* rendering, MIME message assembly and delivery (dry-run or SMTP).        *)
(*                                                                         *)
(* Encoding of Python values                                               *)
(*   - a str that the code splits or strips is a sequence of one-character *)
(*     strings; None for such a value is the sequence <<"None">>, which no *)
(*     str equals because its only element is not a single character;      *)
(*   - a value the code only tests and passes on (delivery, host, port,    *)
(*     username, password, debug) is a TLA+ string, "None" standing for    *)
(*     None and "" for the empty str;                                      *)
(*   - bytes are sequences of integers.                                    *)
(***************************************************************************)
EXTENDS Integers, Sequences, FiniteSets, TLC

\* ------------------------------------------------------------ bounds
\* longest total length of the to_addr, cc and bcc arguments of message()
MaxLen == 4
\* most recipient header instances in a message handed to send(): up to
\* MaxRcpt To values, at most one Cc and one Bcc value
MaxRcpt == 2
\* sessions that may be left open before the caller stops sending
MaxOpen == 1

\* ------------------------------------------------------------ Python values
None == <<"None">>

SP == " "
COMMA == ","

\* the characters of the address arguments
AddrChars == {"a", SP, COMMA}

\* bool(x) of a str-or-None value
Truthy(x) == x # None /\ x # <<>>

\* a or b
Or(a, b) == IF Truthy(a) THEN a ELSE b

\* bool(x) of a value kept as a TLA+ string
TruthyV(x) == x # "None" /\ x # "" /\ x # "False"

\* str.strip(): leading and trailing whitespace removed
RECURSIVE LStrip(_)
LStrip(s) == IF s # <<>> /\ Head(s) = SP THEN LStrip(Tail(s)) ELSE s

RECURSIVE RStrip(_)
RStrip(s) ==
    IF s # <<>> /\ s[Len(s)] = SP THEN RStrip(SubSeq(s, 1, Len(s) - 1)) ELSE s

Strip(s) == RStrip(LStrip(s))

\* str.split(','): the pieces between commas, empty pieces included;
\* ''.split(',') is ['']
RECURSIVE SplitFrom(_, _)
SplitFrom(s, cur) ==
    IF s = <<>> THEN <<cur>>
    ELSE IF Head(s) = COMMA THEN <<cur>> \o SplitFrom(Tail(s), <<>>)
    ELSE SplitFrom(Tail(s), Append(cur, Head(s)))

Split(s) == SplitFrom(s, <<>>)

\* [f(x) for x in xs if p(x)] building blocks
RECURSIVE NonBlank(_)
NonBlank(xs) ==
    IF xs = <<>> THEN <<>>
    ELSE IF Head(xs) # None /\ Strip(Head(xs)) # <<>>
         THEN <<Head(xs)>> \o NonBlank(Tail(xs))
         ELSE NonBlank(Tail(xs))

\* a variant that trims leading whitespace only
StripAllLeadingOnly(xs) == [k \in 1..Len(xs) |-> LStrip(xs[k])]

StripAll(xs) == [k \in 1..Len(xs) |-> Strip(xs[k])]

\* [addr.strip() for addr in (value or '').split(',') if addr.strip() != '']
AddrTokens(value) == StripAll(NonBlank(Split(Or(value, <<>>))))

\* ------------------------------------------------------------ templates
\* What a template object does when one of its capabilities is called:
\*   "absent"   the object has no such attribute (AttributeError)
\*   "raises"   the call fails inside the template (a missing variable)
\*   "str"      the call returns text
\*   "bytes"    the call returns UTF-8 bytes
\*   "badbytes" the call returns bytes that are not UTF-8
Capabilities == {"absent", "raises", "str", "bytes", "badbytes"}

\* a template argument: a str (a name; a str has neither capability) or an object
TemplateObjects ==
    [isStr : {FALSE}, name : {""}, render : Capabilities, generate : Capabilities]

TemplateNames == {"welcome.txt", "missing.txt"}

TemplateStrs ==
    [isStr : {TRUE}, name : TemplateNames, render : {"absent"}, generate : {"absent"}]

\* the files the loader finds under template_path, and what it loads them as:
\* a tornado template has generate(), which returns bytes, and no render()
LoaderFiles == {"welcome.txt"}

LoadedTemplate == [isStr |-> FALSE, name |-> "", render |-> "absent", generate |-> "bytes"]

\* the text a template produces from its context
TemplateText(ctx) ==
    <<"h", "i", SP>> \o (IF ctx.to_addr = None THEN <<>> ELSE ctx.to_addr)

\* text.encode('UTF-8'), one character at a time
EncodeChar(c) ==
    CASE c = "a" -> <<97>>
      [] c = "h" -> <<104>>
      [] c = "i" -> <<105>>
      [] c = SP -> <<32>>
      [] c = COMMA -> <<44>>
      [] OTHER -> <<195, 169>>

RECURSIVE Encode(_)
Encode(s) == IF s = <<>> THEN <<>> ELSE EncodeChar(Head(s)) \o Encode(Tail(s))

DecodeByte(b) ==
    CASE b = 97 -> "a"
      [] b = 104 -> "h"
      [] b = 105 -> "i"
      [] b = 32 -> SP
      [] OTHER -> COMMA

\* bytes.decode('UTF-8'): [ok, text]; ok is FALSE for a malformed sequence
RECURSIVE Decode(_)
Decode(bs) ==
    IF bs = <<>> THEN [ok |-> TRUE, text |-> <<>>]
    ELSE IF Head(bs) < 128
    THEN LET rest == Decode(Tail(bs))
         IN  [ok |-> rest.ok, text |-> <<DecodeByte(Head(bs))>> \o rest.text]
    ELSE IF Len(bs) >= 2 /\ bs[1] = 195 /\ bs[2] = 169
    THEN LET rest == Decode(SubSeq(bs, 3, Len(bs)))
         IN  [ok |-> rest.ok, text |-> <<"e'">> \o rest.text]
    ELSE [ok |-> FALSE, text |-> <<>>]

\* the outcome of one capability call: what kind of value or failure
CallCapability(t, op, ctx) ==
    LET cap == IF op = "render" THEN t.render ELSE t.generate
    IN  CASE cap = "absent" -> [raised |-> TRUE, error |-> "AttributeError",
                                isBytes |-> FALSE, text |-> <<>>, bytes |-> <<>>]
          [] cap = "raises" -> [raised |-> TRUE, error |-> "KeyError",
                                isBytes |-> FALSE, text |-> <<>>, bytes |-> <<>>]
          [] cap = "str" -> [raised |-> FALSE, error |-> "",
                             isBytes |-> FALSE, text |-> TemplateText(ctx), bytes |-> <<>>]
          [] cap = "bytes" -> [raised |-> FALSE, error |-> "",
                               isBytes |-> TRUE, text |-> <<>>,
                               bytes |-> Encode(TemplateText(ctx))]
          [] OTHER -> [raised |-> FALSE, error |-> "",
                       isBytes |-> TRUE, text |-> <<>>, bytes |-> <<195>>]

\* one entry of the record of what render() did with its template
Touched(op, t) == [op |-> op, onStr |-> t.isStr, cap |-> IF op = "render" THEN t.render
                                                         ELSE IF op = "generate" THEN t.generate
                                                         ELSE "load"]

Raised(error, calls) == [raised |-> TRUE, error |-> error, text |-> <<>>, calls |-> calls]

Returned(text, calls) == [raised |-> FALSE, error |-> "", text |-> text, calls |-> calls]

\* a variant without the fallback: the failure of render(**context) propagates
RenderWithoutFallback(t, ctx) ==
    [out |-> CallCapability(t, "render", ctx), calls |-> <<Touched("render", t)>>]

\* the try/except of render(): the bare except takes every failure of
\* template.render(**context) to template.generate(**context)
RenderOrGenerate(t, ctx) ==
    LET first == CallCapability(t, "render", ctx)
    IN  IF ~first.raised
        THEN [out |-> first, calls |-> <<Touched("render", t)>>]
        ELSE [out |-> CallCapability(t, "generate", ctx),
              calls |-> <<Touched("render", t), Touched("generate", t)>>]

\* TextMailer.render(template, **context)
render(conf, template, ctx) ==
    LET useLoader == template.isStr /\ conf.loader # "None"
    IN  IF useLoader /\ template.name \notin LoaderFiles
        THEN Raised("FileNotFoundError", <<Touched("load", template)>>)
        ELSE LET t == IF useLoader THEN LoadedTemplate ELSE template
                 loads == IF useLoader THEN <<Touched("load", template)>> ELSE <<>>
                 r == RenderOrGenerate(t, ctx)
                 calls == loads \o r.calls
             IN  IF r.out.raised THEN Raised(r.out.error, calls)
                 ELSE IF ~r.out.isBytes THEN Returned(r.out.text, calls)
                 ELSE IF Decode(r.out.bytes).ok
                      THEN Returned(Decode(r.out.bytes).text, calls)
                      ELSE Raised("UnicodeDecodeError", calls)

\* ------------------------------------------------------------ messages
Header(name, value) == [name |-> name, value |-> value]

\* MIMEText(text): the three MIME headers and the payload
MIMEText(text) ==
    [headers |-> << Header("Content-Type", <<"text/plain; charset=\"us-ascii\"">>),
                    Header("MIME-Version", <<"1.0">>),
                    Header("Content-Transfer-Encoding", <<"7bit">>) >>,
     body |-> text]

\* msg[name] = value and msg.add_header(name, value): one more header instance
AddHeader(m, name, value) ==
    [m EXCEPT !.headers = Append(@, Header(name, value))]

RECURSIVE AddHeaders(_, _, _)
AddHeaders(m, name, values) ==
    IF values = <<>> THEN m
    ELSE AddHeaders(AddHeader(m, name, Head(values)), name, Tail(values))

\* the values of the header instances called name, in order
RECURSIVE ValuesOf(_, _)
ValuesOf(hs, name) ==
    IF hs = <<>> THEN <<>>
    ELSE IF Head(hs).name = name THEN <<Head(hs).value>> \o ValuesOf(Tail(hs), name)
    ELSE ValuesOf(Tail(hs), name)

\* msg.get_all(name) or []
GetAll(m, name) == ValuesOf(m.headers, name)

\* msg[name]: the first instance's value, None when there is none
GetFirst(m, name) ==
    IF GetAll(m, name) = <<>> THEN None ELSE Head(GetAll(m, name))

\* msg.as_string(): one "Name: value" line per header, an empty line, the
\* payload; a header whose value is None is written with an empty value
RECURSIVE HeaderLines(_)
HeaderLines(hs) ==
    IF hs = <<>> THEN <<>>
    ELSE <<Head(hs).name, ": ">>
         \o (IF Head(hs).value = None THEN <<>> ELSE Head(hs).value)
         \o <<"\n">> \o HeaderLines(Tail(hs))

AsString(m) == HeaderLines(m.headers) \o <<"\n">> \o m.body

\* the template argument left at its default, None
NoTemplate == [isStr |-> FALSE, name |-> "None", render |-> "absent", generate |-> "absent"]

\* the To header falls back to the configured address: to_addr or self.to_address
ToSource(conf, to_addr) == Or(to_addr, conf.to_address)

\* the keyword arguments message() passes to render()
Context(conf, to_addr, from_addr, cc, bcc) ==
    [to_addr |-> ToSource(conf, to_addr), from_addr |-> from_addr, cc |-> cc, bcc |-> bcc]

\* the header part of message(): From, Subject, then one To, Cc and Bcc
\* instance per address
Assemble(conf, text, to_addr, subject, from_addr, cc, bcc) ==
    LET m0 == MIMEText(text)
        m1 == AddHeader(m0, "From", Or(from_addr, conf.from_address))
        m2 == AddHeader(m1, "Subject", subject)
        m3 == AddHeaders(m2, "To", AddrTokens(ToSource(conf, to_addr)))
        m4 == AddHeaders(m3, "Cc", AddrTokens(cc))
    IN  AddHeaders(m4, "Bcc", AddrTokens(bcc))

\* TextMailer.message(template, text, to_addr, subject, from_addr, cc, bcc)
message(conf, template, text, to_addr, subject, from_addr, cc, bcc) ==
    LET r == IF template # NoTemplate
             THEN render(conf, template, Context(conf, to_addr, from_addr, cc, bcc))
             ELSE Returned(text, <<>>)
    IN  IF r.raised
        THEN [raised |-> TRUE, error |-> r.error, calls |-> r.calls, msg |-> MIMEText(<<>>)]
        ELSE [raised |-> FALSE, error |-> "", calls |-> r.calls,
              msg |-> Assemble(conf, r.text, to_addr, subject, from_addr, cc, bcc)]

\* ------------------------------------------------------------ state
VARIABLES
    cfg,        \* the Email configuration the mailer was constructed with
    pc,         \* where the current send() is: "idle" between calls
    call,       \* the operation last called and its arguments
    msg,        \* the message built by message() or handed to send()
    fromaddr,   \* send(): msg['From']
    tolist,     \* send(): the recipient list
    sent,       \* send(): how many recipients the loop has completed
    smtp,       \* the SMTP client operations the current call has issued
    open,       \* SMTP sessions opened and not terminated
    touched,    \* what render() did with its template in the current call
    logged,     \* the logger calls of the current call
    result      \* how the last call ended

vars == <<cfg, pc, call, msg, fromaddr, tolist, sent, smtp, open, touched, logged, result>>

\* ------------------------------------------------------------ results
NoError == [type |-> "", op |-> "", at |-> 0]

\* an error object: its class, the operation that raised it and, for a
\* sendmail, the position of the recipient in the list
Error(type, op, at) == [type |-> type, op |-> op, at |-> at]

Pending == [kind |-> "pending", text |-> <<>>, error |-> NoError]

\* return None, also by falling off the end of the function
ReturnsNone == [kind |-> "None", text |-> <<>>, error |-> NoError]

ReturnsStr(text) == [kind |-> "str", text |-> text, error |-> NoError]

ReturnsMessage == [kind |-> "Message", text |-> <<>>, error |-> NoError]

\* return sys.exc_info()[1]
ReturnsError(e) == [kind |-> "exception", text |-> <<>>, error |-> e]

\* the call ends with e raised to the caller
Raises(e) == [kind |-> "raised", text |-> <<>>, error |-> e]

\* ------------------------------------------------------------ the SMTP client
\* an entry of the record of client operations: the call and its arguments,
\* and the error it raised (NoError when it succeeded)
NoOp == [op |-> "", host |-> "", port |-> "", level |-> 0, user |-> "", password |-> "",
         from |-> None, to |-> None, data |-> <<>>, raised |-> NoError]

Failing(o, e) == [o EXCEPT !.raised = e]

OpConnect(host, port) == [NoOp EXCEPT !.op = "connect", !.host = host, !.port = port]

OpDebugLevel(level) == [NoOp EXCEPT !.op = "set_debuglevel", !.level = level]

OpLogin(user, password) == [NoOp EXCEPT !.op = "login", !.user = user, !.password = password]

OpSendmail(from, to, data) ==
    [NoOp EXCEPT !.op = "sendmail", !.from = from, !.to = to, !.data = data]

OpQuit == [NoOp EXCEPT !.op = "quit"]

\* what each client operation raises when it fails
ErrorOf(op) ==
    CASE op = "connect" -> "ConnectionRefusedError"
      [] op = "set_debuglevel" -> "ValueError"
      [] op = "login" -> "SMTPAuthenticationError"
      [] op = "sendmail" -> "SMTPRecipientsRefused"
      [] OTHER -> "SMTPServerDisconnected"

\* ------------------------------------------------------------ the logger
LogLine(what, addr, error, stderr) ==
    [what |-> what, addr |-> addr, error |-> error, stderr |-> stderr]

\* self.debug==True
DebugOn == cfg.debug = "True"

\* if self.debug==True: self.log("From =", fromaddr)
LogFrom(f) == IF DebugOn THEN <<LogLine("From =", f, NoError, FALSE)>> ELSE <<>>

\* if self.debug==True: self.log("To =", toaddr)
LogTo(t) == IF DebugOn THEN <<LogLine("To =", t, NoError, FALSE)>> ELSE <<>>

\* the except clause's logging: traceback.format_exc() when debug is on,
\* "Emailer exception:" and the error, to stderr, otherwise
LogFailure(e) ==
    IF DebugOn THEN <<LogLine("traceback", None, e, FALSE)>>
    ELSE <<LogLine("Emailer exception:", None, e, TRUE)>>

\* ------------------------------------------------------------ inputs
Configs ==
    [delivery : {"test", "smtp", "sendmail", "None"},
     host : {"None", "mail.example.com"},
     port : {"None", "25"},
     username : {"None", "user"},
     password : {"None", "secret"},
     debug : {"True", "False", "None"},
     from_address : {<<"f">>},
     to_address : {<<"b">>},
     loader : {"None", "Loader"}]

BuildConfigs ==
    [delivery : {"test"},
     host : {"None"},
     port : {"None"},
     username : {"None"},
     password : {"None"},
     debug : {"False"},
     from_address : {None, <<"f">>},
     to_address : {None, <<>>, <<"b">>},
     loader : {"Loader"}]

\* str values of at most n characters
RECURSIVE StrsUpTo(_)
StrsUpTo(n) ==
    IF n = 0 THEN {<<>>}
    ELSE LET shorter == StrsUpTo(n - 1)
         IN  shorter \cup {Append(s, c) : s \in shorter, c \in AddrChars}

\* an address argument of at most n characters, or None
AddrArgs(n) == {None} \cup StrsUpTo(n)

ArgLen(x) == IF x = None THEN 0 ELSE Len(x)

\* header values a message handed to send() may carry
RcptValues == {<<"a">>, <<"b">>, <<SP>>, None}

RECURSIVE ListsUpTo(_)
ListsUpTo(n) ==
    IF n = 0 THEN {<<>>}
    ELSE LET shorter == ListsUpTo(n - 1)
         IN  shorter \cup {Append(s, v) : s \in shorter, v \in RcptValues}

\* a message as a caller may have built it, with any header values
AnyMessage(to, cc, bcc) ==
    LET m1 == AddHeader(MIMEText(<<"h", "i">>), "From", <<"f">>)
        m2 == AddHeader(m1, "Subject", <<"s">>)
    IN  AddHeaders(AddHeaders(AddHeaders(m2, "To", to), "Cc", cc), "Bcc", bcc)

NoCall == [op |-> "", template |-> NoTemplate, text |-> <<>>, to_addr |-> None,
           subject |-> None, from_addr |-> None, cc |-> None, bcc |-> None]

\* ------------------------------------------------------------ initial states
InitCall ==
    /\ pc = "idle"
    /\ call = NoCall
    /\ msg = MIMEText(<<>>)
    /\ fromaddr = None
    /\ tolist = <<>>
    /\ sent = 0
    /\ smtp = <<>>
    /\ open = 0
    /\ touched = <<>>
    /\ logged = <<>>
    /\ result = Pending

Init == cfg \in Configs /\ InitCall

InitBuild == cfg \in BuildConfigs /\ InitCall

\* ------------------------------------------------------------ render, message
\* every call starts with nothing issued, logged or returned
Fresh ==
    /\ fromaddr' = None
    /\ tolist' = <<>>
    /\ sent' = 0
    /\ smtp' = <<>>
    /\ logged' = <<>>

\* the caller calls render(template, to_addr=...)
Render ==
    /\ pc = "idle"
    /\ \E template \in TemplateObjects \cup TemplateStrs, to_addr \in {None, <<"a">>} :
          LET ctx == [to_addr |-> to_addr, from_addr |-> None, cc |-> None, bcc |-> None]
              r == render(cfg, template, ctx)
          IN  /\ call' = [NoCall EXCEPT !.op = "render", !.template = template,
                                        !.to_addr = to_addr]
              /\ touched' = r.calls
              /\ result' = IF r.raised THEN Raises(Error(r.error, "render", 0))
                           ELSE ReturnsStr(r.text)
    /\ pc' = "done"
    /\ Fresh
    /\ UNCHANGED <<cfg, msg, open>>

\* the caller calls message(template, text, to_addr, subject, from_addr, cc, bcc)
Message ==
    /\ pc = "idle"
    /\ \E template \in {NoTemplate, LoadedTemplate}, from_addr \in {None, <<"g">>},
          to_addr \in AddrArgs(MaxLen) :
       \E cc \in AddrArgs(MaxLen - ArgLen(to_addr)) :
       \E bcc \in AddrArgs(MaxLen - ArgLen(to_addr) - ArgLen(cc)) :
          /\ LET r == message(cfg, template, <<"h", "i">>, to_addr, <<"s">>, from_addr, cc, bcc)
             IN  /\ call' = [op |-> "message", template |-> template, text |-> <<"h", "i">>,
                             to_addr |-> to_addr, subject |-> <<"s">>,
                             from_addr |-> from_addr, cc |-> cc, bcc |-> bcc]
                 /\ touched' = r.calls
                 /\ msg' = r.msg
                 /\ result' = IF r.raised THEN Raises(Error(r.error, "render", 0))
                              ELSE ReturnsMessage
    /\ pc' = "done"
    /\ Fresh
    /\ UNCHANGED <<cfg, open>>

\* the call has returned (or raised): its locals are gone, the mailer's
\* configuration and whatever sessions it left open remain
Return ==
    /\ pc = "done"
    /\ pc' = "idle"
    /\ call' = NoCall
    /\ msg' = MIMEText(<<>>)
    /\ touched' = <<>>
    /\ result' = Pending
    /\ Fresh
    /\ UNCHANGED <<cfg, open>>

\* ------------------------------------------------------------ send
\* a variant that sends one copy to each distinct address
RECURSIVE Distinct(_)
Distinct(xs) ==
    IF xs = <<>> THEN <<>>
    ELSE LET front == Distinct(SubSeq(xs, 1, Len(xs) - 1))
             last == xs[Len(xs)]
         IN  IF \E k \in 1..Len(front) : front[k] = last THEN front ELSE Append(front, last)

RecipientsDeduplicated(m) ==
    Distinct(NonBlank(GetAll(m, "To") \o GetAll(m, "Cc") \o GetAll(m, "Bcc")))

\* the recipient list of send(): To, then Cc, then Bcc values, the None and
\* blank ones left out (the values themselves are not stripped)
Recipients(m) == NonBlank(GetAll(m, "To") \o GetAll(m, "Cc") \o GetAll(m, "Bcc"))

\* a variant whose dry-run mode is not tested first: it goes on to SMTP
SendStartWithoutDryRun(m) ==
    /\ msg' = m
    /\ IF cfg.delivery \in {"test", "smtp"}
       THEN /\ fromaddr' = GetFirst(m, "From")
            /\ logged' = LogFrom(GetFirst(m, "From"))
            /\ tolist' = Recipients(m)
            /\ sent' = 0
            /\ smtp' = <<>>
            /\ result' = Pending
            /\ pc' = "connect"
       ELSE /\ result' = ReturnsNone
            /\ pc' = "done"
            /\ Fresh
    /\ UNCHANGED <<cfg, open>>

\* the first statements of send(msg), up to the try
SendStart(m) ==
    /\ msg' = m
    /\ IF cfg.delivery = "test"
       THEN /\ result' = ReturnsStr(AsString(m))
            /\ pc' = "done"
            /\ Fresh
       ELSE IF cfg.delivery = "smtp"
       THEN /\ fromaddr' = GetFirst(m, "From")
            /\ logged' = LogFrom(GetFirst(m, "From"))
            /\ tolist' = Recipients(m)
            /\ sent' = 0
            /\ smtp' = <<>>
            /\ result' = Pending
            /\ pc' = "connect"
       ELSE /\ result' = ReturnsNone
            /\ pc' = "done"
            /\ Fresh
    /\ UNCHANGED <<cfg, open>>

\* the caller calls send(msg)
Send ==
    /\ pc = "idle"
    /\ open < MaxOpen
    /\ \E to \in ListsUpTo(MaxRcpt), cc \in ListsUpTo(1), bcc \in ListsUpTo(1) :
          /\ Len(to) + Len(cc) + Len(bcc) <= MaxRcpt
          /\ call' = [NoCall EXCEPT !.op = "send"]
          /\ SendStart(AnyMessage(to, cc, bcc))
    /\ touched' = <<>>

\* the caller calls send_message(template, to_addr, subject, from_addr, cc, bcc):
\* message(), and send() of what it built
SendMessage ==
    /\ pc = "idle"
    /\ open < MaxOpen
    /\ \E template \in TemplateStrs
                       \cup {t \in TemplateObjects : t.generate = "bytes"
                                                    /\ t.render \in {"absent", "raises"}},
          to_addr \in {None, <<"a", COMMA, "a">>}, cc \in {None, <<SP, COMMA, "b">>} :
          LET r == message(cfg, template, <<>>, to_addr, <<"s">>, None, cc, None)
          IN  /\ call' = [op |-> "send_message", template |-> template, text |-> <<>>,
                          to_addr |-> to_addr, subject |-> <<"s">>,
                          from_addr |-> None, cc |-> cc, bcc |-> None]
              /\ touched' = r.calls
              /\ IF r.raised
                 THEN /\ result' = Raises(Error(r.error, "render", 0))
                      /\ msg' = r.msg
                      /\ pc' = "done"
                      /\ Fresh
                      /\ UNCHANGED <<cfg, open>>
                 ELSE SendStart(r.msg)

\* a variant that logs and raises the failure again
ExceptReraises(e, log) ==
    /\ logged' = log \o LogFailure(e)
    /\ result' = Raises(e)
    /\ pc' = "done"

\* the except clause, entered with log already written by the try block:
\* log the failure, return the error object
Except(e, log) ==
    /\ logged' = log \o LogFailure(e)
    /\ result' = ReturnsError(e)
    /\ pc' = "done"

\* smtplib.SMTP(self.host or '127.0.0.1'[, self.port])
Connect ==
    /\ pc = "connect"
    /\ LET o == OpConnect(IF TruthyV(cfg.host) THEN cfg.host ELSE "127.0.0.1",
                          IF cfg.port # "None" THEN cfg.port ELSE "default")
           e == Error(ErrorOf("connect"), "connect", 0)
       IN  \/ /\ smtp' = Append(smtp, o)
              /\ open' = open + 1
              /\ pc' = "debuglevel"
              /\ UNCHANGED <<logged, result>>
           \/ /\ smtp' = Append(smtp, Failing(o, e))
              /\ Except(e, logged)
              /\ UNCHANGED open
    /\ UNCHANGED <<cfg, call, msg, fromaddr, tolist, sent, touched>>

\* a variant that logs in when either credential is set
HasEitherCredential == cfg.username # "None" \/ cfg.password # "None"

\* if self.username is not None and self.password is not None
HasCredentials == cfg.username # "None" /\ cfg.password # "None"

\* smtpclient.set_debuglevel(self.debug and 1 or 0)
SetDebugLevel ==
    /\ pc = "debuglevel"
    /\ LET o == OpDebugLevel(IF TruthyV(cfg.debug) THEN 1 ELSE 0)
           e == Error(ErrorOf("set_debuglevel"), "set_debuglevel", 0)
       IN  \/ /\ smtp' = Append(smtp, o)
              /\ pc' = IF HasCredentials THEN "login" ELSE "loop"
              /\ UNCHANGED <<logged, result>>
           \/ /\ smtp' = Append(smtp, Failing(o, e))
              /\ Except(e, logged)
    /\ UNCHANGED <<cfg, call, msg, fromaddr, tolist, sent, open, touched>>

\* smtpclient.login(self.username, self.password)
Login ==
    /\ pc = "login"
    /\ LET o == OpLogin(cfg.username, cfg.password)
           e == Error(ErrorOf("login"), "login", 0)
       IN  \/ /\ smtp' = Append(smtp, o)
              /\ pc' = "loop"
              /\ UNCHANGED <<logged, result>>
           \/ /\ smtp' = Append(smtp, Failing(o, e))
              /\ Except(e, logged)
    /\ UNCHANGED <<cfg, call, msg, fromaddr, tolist, sent, open, touched>>

\* a variant whose loop guards each recipient: a failed sendmail is noted and
\* the loop goes on to the next recipient
SendmailContinues ==
    /\ pc = "loop"
    /\ sent < Len(tolist)
    /\ LET toaddr == tolist[sent + 1]
           o == OpSendmail(fromaddr, toaddr, AsString(msg))
           e == Error(ErrorOf("sendmail"), "sendmail", sent + 1)
       IN  \/ /\ smtp' = Append(smtp, o)
              /\ logged' = logged \o LogTo(toaddr)
           \/ /\ smtp' = Append(smtp, Failing(o, e))
              /\ logged' = logged \o LogTo(toaddr) \o LogFailure(e)
    /\ sent' = sent + 1
    /\ UNCHANGED <<pc, result>>
    /\ UNCHANGED <<cfg, call, msg, fromaddr, tolist, open, touched>>

\* one turn of the loop: log the target when debug is on, then
\* smtpclient.sendmail(fromaddr, toaddr, msg.as_string())
Sendmail ==
    /\ pc = "loop"
    /\ sent < Len(tolist)
    /\ LET toaddr == tolist[sent + 1]
           o == OpSendmail(fromaddr, toaddr, AsString(msg))
           e == Error(ErrorOf("sendmail"), "sendmail", sent + 1)
       IN  \/ /\ smtp' = Append(smtp, o)
              /\ sent' = sent + 1
              /\ logged' = logged \o LogTo(toaddr)
              /\ UNCHANGED <<pc, result>>
           \/ /\ smtp' = Append(smtp, Failing(o, e))
              /\ Except(e, logged \o LogTo(toaddr))
              /\ UNCHANGED sent
    /\ UNCHANGED <<cfg, call, msg, fromaddr, tolist, open, touched>>

\* after the loop: smtpclient.quit(), and send() falls off its end; the
\* client closes its connection in quit() also when the command fails
Quit ==
    /\ pc = "loop"
    /\ sent = Len(tolist)
    /\ LET e == Error(ErrorOf("quit"), "quit", 0)
       IN  \/ /\ smtp' = Append(smtp, OpQuit)
              /\ open' = open - 1
              /\ result' = ReturnsNone
              /\ pc' = "done"
              /\ UNCHANGED logged
           \/ /\ smtp' = Append(smtp, Failing(OpQuit, e))
              /\ Except(e, logged)
              /\ open' = open - 1
    /\ UNCHANGED <<cfg, call, msg, fromaddr, tolist, sent, touched>>

\* ------------------------------------------------------------ specifications
Next ==
    \/ Render
    \/ Send
    \/ SendMessage
    \/ Connect
    \/ SetDebugLevel
    \/ Login
    \/ Sendmail
    \/ Quit
    \/ Return

Spec == Init /\ [][Next]_vars

NextBuild == Message \/ Render \/ Return

SpecBuild == InitBuild /\ [][NextBuild]_vars

\* ------------------------------------------------------------ properties
\* the client operations called name that the current call has issued
Issued(name) == SelectSeq(smtp, LAMBDA o : o.op = name)

\* a header value send() must leave out: None, empty or whitespace only
IsBlank(v) == v = None \/ \A k \in 1..Len(v) : v[k] = SP

\* the recipients send() owes a copy: the To, Cc and Bcc values in that order
Owed == SelectSeq(GetAll(msg, "To") \o GetAll(msg, "Cc") \o GetAll(msg, "Bcc"),
                  LAMBDA v : ~IsBlank(v))

\* a call of send(), directly or through send_message(), that got as far as send()
SendReached == pc = "done" /\ call.op \in {"send", "send_message"} /\ result.kind # "raised"

\* the line the logger must have been given last for failure e
FailureLine(e) ==
    [what |-> IF cfg.debug = "True" THEN "traceback" ELSE "Emailer exception:",
     addr |-> None, error |-> e, stderr |-> cfg.debug # "True"]

C2_TestModeReturnsTextWithoutSmtp ==
    cfg.delivery = "test" =>
        /\ smtp = <<>>
        /\ open = 0
        /\ pc \in {"idle", "done"}
        /\ SendReached => result = [kind |-> "str", text |-> AsString(msg), error |-> NoError]

C2_Witness ==
    /\ cfg.delivery = "test"
    /\ cfg.host = "None"
    /\ cfg.port = "None"
    /\ cfg.username = "user"
    /\ cfg.password = "None"
    /\ pc = "done"
    /\ call.op = "send"
    /\ Len(GetAll(msg, "To")) = 2
    /\ result.kind = "str"

\* C3: render() falls back to generate only when the render capability is
\* unsupported; a render capability that fails otherwise has its failure
\* raised to the caller and generate is not tried.
C3_FallbackOnlyWhenUnsupported ==
    (pc = "done" /\ call.op = "render") =>
        \A k \in 1..Len(touched) :
            /\ touched[k].op = "generate" =>
                  \E j \in 1..(k - 1) : touched[j].op = "render" /\ touched[j].cap = "absent"
            /\ (touched[k].op = "render" /\ touched[k].cap = "raises") =>
                  result = Raises(Error("KeyError", "render", 0))

C5_UnknownDeliveryIsAnError ==
    (pc = "done" /\ call.op = "send" /\ cfg.delivery \notin {"test", "smtp"}) =>
        result.kind \in {"raised", "exception"}

\* C6: in SMTP mode with no client failure, send() issues one sendmail per
\* non-blank To, Cc and Bcc value in that order, duplicates included, each with
\* the message's From and its serialized text, and returns None.
C6_OneSendmailPerRecipientInOrder ==
    (SendReached /\ cfg.delivery = "smtp" /\ \A k \in 1..Len(smtp) : smtp[k].raised = NoError) =>
        LET mails == Issued("sendmail")
        IN  /\ Len(mails) = Len(Owed)
            /\ \A k \in 1..Len(mails) :
                  /\ mails[k].to = Owed[k]
                  /\ mails[k].from = GetFirst(msg, "From")
                  /\ mails[k].data = AsString(msg)
            /\ result = [kind |-> "None", text |-> <<>>, error |-> NoError]

C6_Witness ==
    /\ SendReached
    /\ cfg.delivery = "smtp"
    /\ call.op = "send"
    /\ result.kind = "None"
    /\ Len(Issued("sendmail")) = 2
    /\ Issued("sendmail")[1].to = Issued("sendmail")[2].to
    /\ Len(GetAll(msg, "To")) = 1
    /\ Len(GetAll(msg, "Cc")) = 1

\* C7: a send() that opened a connection has issued quit by the time it
\* returns, whatever login and each sendmail did, and leaves no session open.
C7_SessionTerminatedBeforeReturn ==
    (pc = "done" /\ Len(smtp) >= 2 /\ smtp[1].raised = NoError /\ smtp[2].raised = NoError) =>
        /\ Issued("quit") # <<>>
        /\ open = 0

\* the addresses of a comma-separated value, by position: the pieces between
\* one comma (or the start) and the next (or the end), trimmed, the blank ones
\* left out
PieceAfter(s, p) ==
    LET stops == {q \in (p + 1)..(Len(s) + 1) : q = Len(s) + 1 \/ s[q] = COMMA}
        stop == CHOOSE q \in stops : \A r \in stops : q <= r
    IN  SubSeq(s, p + 1, stop - 1)

Trimmed(piece) ==
    LET solid == {k \in 1..Len(piece) : piece[k] # SP}
        first == CHOOSE k \in solid : \A j \in solid : k <= j
        last == CHOOSE k \in solid : \A j \in solid : k >= j
    IN  IF solid = {} THEN <<>> ELSE SubSeq(piece, first, last)

AddressesOf(value) ==
    IF value = None THEN <<>>
    ELSE LET starts == SelectSeq([k \in 1..(Len(value) + 1) |-> k - 1],
                                 LAMBDA p : (p = 0 \/ value[p] = COMMA)
                                            /\ ~IsBlank(PieceAfter(value, p)))
         IN  [k \in 1..Len(starts) |-> Trimmed(PieceAfter(value, starts[k]))]

\* C8 as stated: the To, Cc and Bcc headers of message() are the trimmed
\* non-blank comma-separated pieces of the input, in order; To takes the
\* configured address only when to_addr is not given (None); blank and absent
\* inputs give no header and no error.
C8_HeadersAreAddressesOfInputs ==
    (pc = "done" /\ call.op = "message") =>
        /\ result.kind = "Message"
        /\ GetAll(msg, "To") =
              AddressesOf(IF call.to_addr = None THEN cfg.to_address ELSE call.to_addr)
        /\ GetAll(msg, "Cc") = AddressesOf(call.cc)
        /\ GetAll(msg, "Bcc") = AddressesOf(call.bcc)

\* C8 as amended: the same, with To taking the configured address when to_addr
\* is not given or is the empty str.
C8_HeadersAreAddressesOfInputsOrDefault ==
    (pc = "done" /\ call.op = "message") =>
        /\ result.kind = "Message"
        /\ GetAll(msg, "To") =
              AddressesOf(IF call.to_addr \in {None, <<>>} THEN cfg.to_address
                          ELSE call.to_addr)
        /\ GetAll(msg, "Cc") = AddressesOf(call.cc)
        /\ GetAll(msg, "Bcc") = AddressesOf(call.bcc)

C8_Witness ==
    /\ pc = "done"
    /\ call.op = "message"
    /\ call.cc = <<SP, "a", COMMA, COMMA>>
    /\ call.to_addr = None
    /\ cfg.to_address = <<"b">>
    /\ GetAll(msg, "Cc") = << <<"a">> >>
    /\ GetAll(msg, "To") = << <<"b">> >>
    /\ GetAll(msg, "Bcc") = <<>>

\* what C9 says of the order: at most one login, after the connect and before
\* every sendmail, and no sendmail after a failed login
LoginInOrder ==
    /\ Len(Issued("login")) <= 1
    /\ \A k \in 1..Len(smtp) :
          smtp[k].op = "login" =>
              /\ \E j \in 1..(k - 1) : smtp[j].op = "connect" /\ smtp[j].raised = NoError
              /\ \A j \in 1..(k - 1) : smtp[j].op # "sendmail"
              /\ smtp[k].raised # NoError => Issued("sendmail") = <<>>
              /\ smtp[k].user = cfg.username
              /\ smtp[k].password = cfg.password

\* C9 as stated: in SMTP mode send() calls login exactly when username and
\* password are both set; once, after the connect, before the first sendmail,
\* and a failed login leaves no sendmail.
C9_LoginIffCredentials ==
    /\ LoginInOrder
    /\ (SendReached /\ cfg.delivery = "smtp") =>
          (Len(Issued("login")) = 1 <=> (cfg.username # "None" /\ cfg.password # "None"))

\* C9 as amended: send() calls login exactly when username and password are
\* both set and the connection was opened and its debug level set without
\* failure; the rest as stated.
C9_LoginIffCredentialsAndConnected ==
    /\ LoginInOrder
    /\ (SendReached /\ cfg.delivery = "smtp") =>
          (Len(Issued("login")) = 1 <=>
              /\ cfg.username # "None" /\ cfg.password # "None"
              /\ Len(smtp) >= 2 /\ smtp[1].raised = NoError /\ smtp[2].raised = NoError)

C9_Witness ==
    /\ SendReached
    /\ cfg.delivery = "smtp"
    /\ Len(smtp) = 3
    /\ smtp[3].op = "login"
    /\ smtp[3].raised # NoError
    /\ Owed # <<>>

====
